---------------------------- MODULE Spec2Model ----------------------------
(***************************************************************************)
(* A model of lib_ims: the archive fetcher (lib_ims/utils.py), the catalog *)
(* (lib_ims/db/ims_db.py) and the session entry (lib_ims/db/ims_file.py).  *)
(*                                                                         *)
(* Strings the code slices or tests by prefix (file names, version         *)
(* identifiers) are sequences of one-character strings.  Byte counts of    *)
(* the download are counted in MiB; a block of the payload is one MiB.     *)
(***************************************************************************)
EXTENDS Integers, Sequences, FiniteSets, TLC

VARIABLES
    \* ---- download_db / _async_get_url / get_ims_versions
    pc,                         \* position inside download_db
    optimized,                  \* interpreter runs with -O: assert statements are stripped
    requested,                  \* the `version` argument
    descriptor,                 \* IMS_DATASET_META[version] once resolved (line 61)
    target_is_dir,              \* target_path.is_dir()
    files,                      \* the target directory: file name -> bytes
    files0,                     \* the target directory when download_db was entered
    temp_created,               \* open(download_path, 'wb') has succeeded in this call
    net_requests,               \* number of HTTP requests issued
    rsp,                        \* the HTTP response, once there is one
    received,                   \* the blocks rsp.content.read returned, in arrival order
    currently_downloaded_bytes, \* the local of _async_get_url
    progress_str,               \* the local of _async_get_url (NO_PROGRESS before the first chunk)
    progress_logs,              \* number of "Currently Downloaded" messages logged
    total_bytes,                \* task.result() (line 78); -1 before
    err,                        \* the exception download_db raised ("" if none)
    versions,                   \* the most recent call of get_ims_versions()
    \* ---- ImsDatabase
    db_dir,                     \* the base directory: child name -> file content
    db_live,                    \* an ImsDatabase object has been constructed
    recordings,                 \* ImsDatabase.recordings
    last_refresh,               \* outcome of the most recent refresh() call
    dir_changed,                \* the directory was changed after that call
    iterated,                   \* outcome of the most recent iteration since the last refresh
    prev_iterated,              \* outcome of the iteration before that one
    \* ---- ImsFile
    ims_file,                   \* one ImsFile object
    access                      \* outcome of the most recent property access on it

dl_vars == <<pc, optimized, requested, descriptor, target_is_dir, files, files0,
             temp_created, net_requests, rsp, received,
             currently_downloaded_bytes, progress_str, progress_logs,
             total_bytes, err, versions>>
db_vars == <<db_dir, db_live, recordings, last_refresh, dir_changed, iterated,
            prev_iterated>>
file_vars == <<ims_file, access>>
vars == <<dl_vars, db_vars, file_vars>>

(***************************************************************************)
(* Generic helpers.                                                        *)
(***************************************************************************)
Max(a, b) == IF a >= b THEN a ELSE b

Range(s) == {s[i] : i \in DOMAIN s}

\* s[-n:] of Python
suffix(s, n) == SubSeq(s, Max(1, Len(s) - n + 1), Len(s))

\* s[:-n] of Python (n > 0)
drop_last(s, n) == SubSeq(s, 1, Len(s) - n)

\* s.startswith(p)
startswith(s, p) == Len(s) >= Len(p) /\ SubSeq(s, 1, Len(p)) = p

RECURSIVE SeqsUpTo(_, _)
SeqsUpTo(S, n) ==
    IF n = 0 THEN {<<>>}
    ELSE LET shorter == SeqsUpTo(S, n - 1)
         IN  shorter \cup {Append(s, e) : s \in {t \in shorter : Len(t) = n - 1}, e \in S}

Permutations_of(S) ==
    {s \in [1..Cardinality(S) -> S] : \A i, j \in DOMAIN s : s[i] = s[j] => i = j}

(***************************************************************************)
(* lib_ims/utils.py: the dataset registry and its public listing.          *)
(***************************************************************************)
KEY_PAPER == <<"i","m","s","_","r","a","c","i","n","g","_","1","_","p","a","p","e","r">>
KEY_DEV == <<"_","d","e","v","_","t","e","s","t","_","s","m","a","l","l">>
KEY_LATEST == <<"l","a","t","e","s","t">>
KEY_UNKNOWN == <<"u","n","k","n","o","w","n","_","v","e","r","s","i","o","n","_","x","y","z">>
KEY_UNDERSCORED_UNKNOWN == <<"_","x">>

\* The dict literal, in insertion order (a dict iterates in insertion order).
IMS_DATASET_META ==
    << [key |-> KEY_PAPER,
        url |-> "https://micloud.hs-mittweida.de/index.php/s/CFdk5cGjFp3Mpba/download/ims_racing1_paper.zip",
        description |-> "Dataset as described in the IMSRacing Publication",
        licence_notice |-> "Attribution-ShareAlike 4.0 International. Please take note of the included licence.txt file"],
       [key |-> KEY_DEV,
        url |-> "https://micloud.hs-mittweida.de/index.php/s/zRe5G4nS7rBGJxq/download/dev_test_small.zip",
        description |-> "Dev dataset (only contains a subset of data; you shouldn't use it",
        licence_notice |-> "Please take note of the included licence in the licence.txt file."] >>

\* The values the model passes as `version`; 'latest' is the default argument.
Versions == {KEY_PAPER, KEY_DEV, KEY_LATEST, KEY_UNKNOWN, KEY_UNDERSCORED_UNKNOWN}

\* `version in IMS_DATASET_META`
version_known(version) == \E i \in DOMAIN IMS_DATASET_META : IMS_DATASET_META[i].key = version

\* `IMS_DATASET_META[version]`, for a known version
meta_item(version) ==
    IMS_DATASET_META[CHOOSE i \in DOMAIN IMS_DATASET_META : IMS_DATASET_META[i].key = version]

NO_DESCRIPTOR == [key |-> <<>>, url |-> "", description |-> "", licence_notice |-> ""]

\* A faulty listing: every entry, the internal ones too.
get_ims_versions_unfiltered ==
    [i \in DOMAIN IMS_DATASET_META |->
        <<IMS_DATASET_META[i].key, IMS_DATASET_META[i].description,
          IMS_DATASET_META[i].licence_notice>>]

get_ims_versions ==
    LET public == SelectSeq(IMS_DATASET_META, LAMBDA item : ~startswith(item.key, <<"_">>))
    IN  [i \in DOMAIN public |->
            <<public[i].key, public[i].description, public[i].licence_notice>>]

(***************************************************************************)
(* lib_ims/utils.py: download_db, lines 56-61.  The outcome of the two     *)
(* assert statements and of the registry lookup.  Under python -O the      *)
(* asserts are stripped and the lookup itself raises for an unknown key.   *)
(***************************************************************************)
\* A faulty resolution: an unknown identifier falls back to the first entry.
resolve_version_fallback(version, is_dir, stripped) ==
    IF ~stripped /\ ~is_dir THEN [error |-> "AssertionError(3482390)", item |-> NO_DESCRIPTOR]
    ELSE IF version_known(version) THEN [error |-> "", item |-> meta_item(version)]
    ELSE [error |-> "", item |-> IMS_DATASET_META[1]]

resolve_version(version, is_dir, stripped) ==
    IF ~stripped /\ ~is_dir THEN [error |-> "AssertionError(3482390)", item |-> NO_DESCRIPTOR]
    ELSE IF ~stripped /\ ~version_known(version)
         THEN [error |-> "AssertionError(439282)", item |-> NO_DESCRIPTOR]
    ELSE IF ~version_known(version) THEN [error |-> "KeyError", item |-> NO_DESCRIPTOR]
    ELSE [error |-> "", item |-> meta_item(version)]

(***************************************************************************)
(* The payload and the zip library.  A block is one of the letters below;  *)
(* "E" stands for the end-of-central-directory record zipfile.is_zipfile   *)
(* looks for, "a" and "b" for archive members of that name, "x" for a      *)
(* damaged entry.                                                          *)
(***************************************************************************)
MaxChunks == 5

Blocks == {"a", "b", "x", "E"}
Members == {"a", "b"}
DOWNLOAD_ZIP == "download.zip"

\* chunk_size_bytes: 1024 * 1024 bytes, in MiB
chunk_size_bytes == 1

\* 1024 * 1024 * 5 bytes, in MiB: the progress message is logged at its multiples
PROGRESS_STEP == 5

\* zipfile.is_zipfile: the file ends with an end-of-central-directory record
is_zipfile(content) == Len(content) > 0 /\ content[Len(content)] = "E"

\* The entries of an archive is_zipfile accepted, in archive order.
zip_entries(content) == drop_last(content, 1)

\* ZipFile(f).extractall(target): members are written one after the other; a damaged
\* entry raises BadZipFile and leaves the members written before it.
RECURSIVE extractall(_, _)
extractall(entries, fs) ==
    IF entries = <<>> THEN [fs |-> fs, error |-> ""]
    ELSE IF Head(entries) \notin Members THEN [fs |-> fs, error |-> "BadZipFile"]
    ELSE extractall(Tail(entries),
                    [n \in DOMAIN fs \cup {Head(entries)} |->
                        IF n = Head(entries) THEN <<Head(entries)>> ELSE fs[n]])

\* os.remove(download_path) when download_path.is_file()
remove_download(fs) == [n \in DOMAIN fs \ {DOWNLOAD_ZIP} |-> fs[n]]

\* A faulty second half: the temporary file is removed on the success path only.
validate_and_extract_no_finally(fs) ==
    IF ~is_zipfile(fs[DOWNLOAD_ZIP]) THEN [fs |-> fs, error |-> "ImsException(9382930)"]
    ELSE LET r == extractall(zip_entries(fs[DOWNLOAD_ZIP]), fs)
         IN  IF r.error = "" THEN [fs |-> remove_download(r.fs), error |-> ""] ELSE r

\* download_db, lines 82-98: the try/finally around validation and extraction.
validate_and_extract(fs) ==
    IF ~is_zipfile(fs[DOWNLOAD_ZIP])
    THEN [fs |-> remove_download(fs), error |-> "ImsException(9382930)"]
    ELSE LET r == extractall(zip_entries(fs[DOWNLOAD_ZIP]), fs)
         IN  [fs |-> remove_download(r.fs), error |-> r.error]

\* rsp.headers: with or without a Content-Length; header values are strings.
ContentLengths == {"0", "5"}
Headers == {<<>>} \cup {[Content_Length |-> v] : v \in ContentLengths}

\* int() of a header value
int(s) == CASE s = "0" -> 0 [] s = "5" -> 5

(***************************************************************************)
(* lib_ims/utils.py: download_db and _async_get_url, step by step.         *)
(***************************************************************************)
EMPTY_DIR == <<>>
STALE_DIR == [n \in {DOWNLOAD_ZIP, "a"} |-> IF n = "a" THEN <<"x">> ELSE <<"b", "E">>]

NO_RESPONSE == [arrived |-> FALSE, headers |-> <<>>]
NOT_LISTED == [called |-> FALSE, result |-> <<>>]
NO_PROGRESS == [known |-> FALSE, percent |-> -1]
NO_ACCESS == [name |-> "", status |-> ""]
NO_REFRESH == [status |-> "none", error |-> "", warnings |-> 0]
NO_ITERATION == [status |-> "none", error |-> "", result |-> <<>>]
NO_FILE == [constructed |-> FALSE]

DbIdle ==
    /\ db_dir = <<>>
    /\ db_live = FALSE
    /\ recordings = <<>>
    /\ last_refresh = NO_REFRESH
    /\ dir_changed = FALSE
    /\ iterated = NO_ITERATION
    /\ prev_iterated = NO_ITERATION

FileIdle ==
    /\ ims_file = NO_FILE
    /\ access = NO_ACCESS

DlIdle ==
    /\ pc = "idle"
    /\ requested = <<>>
    /\ descriptor = NO_DESCRIPTOR
    /\ files0 = files
    /\ temp_created = FALSE
    /\ net_requests = 0
    /\ rsp = NO_RESPONSE
    /\ received = <<>>
    /\ currently_downloaded_bytes = 0
    /\ progress_str = NO_PROGRESS
    /\ progress_logs = 0
    /\ total_bytes = -1
    /\ err = ""
    /\ versions = NOT_LISTED

\* download_db is about to be called on a target path that is a fresh directory, a
\* directory holding the remains of an earlier download, or no directory at all.
InitDl ==
    /\ optimized \in BOOLEAN
    /\ target_is_dir \in BOOLEAN
    /\ files \in (IF target_is_dir THEN {EMPTY_DIR, STALE_DIR} ELSE {EMPTY_DIR})
    /\ DlIdle
    /\ DbIdle
    /\ FileIdle

\* download_db raises `e`: the exception leaves the function.
raise(e) ==
    /\ pc' = "raised"
    /\ err' = e

\* lines 56-65: the asserts, the registry lookup, the two log messages
download_db_enter ==
    /\ pc = "idle"
    /\ \E version \in Versions :
         LET r == resolve_version(version, target_is_dir, optimized)
         IN  /\ requested' = version
             /\ descriptor' = r.item
             /\ IF r.error # "" THEN raise(r.error)
                ELSE pc' = "resolved" /\ err' = err
    /\ UNCHANGED <<optimized, target_is_dir, files, files0, temp_created, net_requests,
                   rsp, received, currently_downloaded_bytes, progress_str,
                   progress_logs, total_bytes, versions>>
    /\ UNCHANGED <<db_vars, file_vars>>

\* lines 70-71: open(download_path, 'wb') creates or truncates download.zip; it raises
\* when the target path is no directory (reachable only with the asserts stripped).
open_download ==
    /\ pc = "resolved"
    /\ IF target_is_dir
       THEN /\ files' = [n \in DOMAIN files \cup {DOWNLOAD_ZIP} |->
                            IF n = DOWNLOAD_ZIP THEN <<>> ELSE files[n]]
            /\ temp_created' = TRUE
            /\ pc' = "opened"
            /\ err' = err
       ELSE /\ raise("FileNotFoundError")
            /\ UNCHANGED <<files, temp_created>>
    /\ UNCHANGED <<optimized, requested, descriptor, target_is_dir, files0, net_requests,
                   rsp, received, currently_downloaded_bytes, progress_str,
                   progress_logs, total_bytes, versions>>
    /\ UNCHANGED <<db_vars, file_vars>>

\* lines 72-76: asyncio.create_task needs a running loop and run_until_complete a loop
\* that is re-entrant (nest_asyncio); otherwise RuntimeError leaves the with block,
\* which closes the file and keeps it.
create_task ==
    /\ pc = "opened"
    /\ \E loop_ok \in BOOLEAN :
         IF loop_ok THEN pc' = "task" /\ err' = err
         ELSE raise("RuntimeError")
    /\ UNCHANGED <<optimized, requested, descriptor, target_is_dir, files, files0,
                   temp_created, net_requests, rsp, received,
                   currently_downloaded_bytes, progress_str, progress_logs,
                   total_bytes, versions>>
    /\ UNCHANGED <<db_vars, file_vars>>

\* _async_get_url, lines 117-120: the request is issued; it fails (the task's exception
\* is re-raised by task.result(), line 78) or a response arrives, whose Content-Length
\* is converted with int(): int(None) raises TypeError when the header is missing.
sess_get ==
    /\ pc = "task"
    /\ net_requests' = net_requests + 1
    /\ \/ /\ raise("ClientConnectionError")
          /\ UNCHANGED rsp
       \/ \E h \in Headers :
            /\ rsp' = [arrived |-> TRUE, headers |-> h]
            /\ IF "Content_Length" \in DOMAIN h
               THEN pc' = "streaming" /\ err' = err
               ELSE raise("TypeError")
    /\ UNCHANGED <<optimized, requested, descriptor, target_is_dir, files, files0,
                   temp_created, received, currently_downloaded_bytes, progress_str,
                   progress_logs, total_bytes, versions>>
    /\ UNCHANGED <<db_vars, file_vars>>

\* lines 122-126: the text after the byte count of a progress message
progress(content_length, downloaded) ==
    IF content_length # 0
    THEN [known |-> TRUE, percent |-> (downloaded * 100) \div content_length]
    ELSE [known |-> FALSE, percent |-> 0]

\* file_handle.write(read_data)
file_write(content, data) == content \o data

\* lines 121-134, one turn of the loop on a non-empty chunk; the write may fail.
stream_chunk ==
    /\ pc = "streaming"
    /\ Len(received) < MaxChunks
    /\ \E read_data \in SeqsUpTo(Blocks, chunk_size_bytes) \ {<<>>}, write_ok \in BOOLEAN :
         LET content_length == int(rsp.headers.Content_Length)
             downloaded == currently_downloaded_bytes + Len(read_data)
         IN  /\ received' = Append(received, read_data)
             /\ progress_str' = progress(content_length, currently_downloaded_bytes)
             /\ currently_downloaded_bytes' = downloaded
             /\ IF write_ok
                THEN /\ files' = [files EXCEPT ![DOWNLOAD_ZIP] = file_write(@, read_data)]
                     /\ progress_logs' = IF downloaded % PROGRESS_STEP = 0
                                         THEN progress_logs + 1 ELSE progress_logs
                     /\ UNCHANGED <<pc, err>>
                ELSE /\ raise("OSError")
                     /\ UNCHANGED <<files, progress_logs>>
    /\ UNCHANGED <<optimized, requested, descriptor, target_is_dir, files0, temp_created,
                   net_requests, rsp, total_bytes, versions>>
    /\ UNCHANGED <<db_vars, file_vars>>

\* line 121: the connection breaks while the next chunk is awaited
stream_fail ==
    /\ pc = "streaming"
    /\ raise("ClientPayloadError")
    /\ UNCHANGED <<optimized, requested, descriptor, target_is_dir, files, files0,
                   temp_created, net_requests, rsp, received,
                   currently_downloaded_bytes, progress_str, progress_logs,
                   total_bytes, versions>>
    /\ UNCHANGED <<db_vars, file_vars>>

\* line 121 reads b'': the loop ends, line 136 returns the count, lines 77-80 take it
\* from the task and the with block closes the file.
stream_eof ==
    /\ pc = "streaming"
    /\ total_bytes' = currently_downloaded_bytes
    /\ pc' = "downloaded"
    /\ UNCHANGED <<optimized, requested, descriptor, target_is_dir, files, files0,
                   temp_created, net_requests, rsp, received,
                   currently_downloaded_bytes, progress_str, progress_logs, err,
                   versions>>
    /\ UNCHANGED <<db_vars, file_vars>>

\* lines 82-98
finish_download ==
    /\ pc = "downloaded"
    /\ LET r == validate_and_extract(files)
       IN  /\ files' = r.fs
           /\ IF r.error # "" THEN raise(r.error)
              ELSE pc' = "returned" /\ err' = err
    /\ UNCHANGED <<optimized, requested, descriptor, target_is_dir, files0, temp_created,
                   net_requests, rsp, received, currently_downloaded_bytes,
                   progress_str, progress_logs, total_bytes, versions>>
    /\ UNCHANGED <<db_vars, file_vars>>

\* get_ims_versions() is called (before download_db, to see the options)
list_versions ==
    /\ pc = "idle"
    /\ versions' = [called |-> TRUE, result |-> get_ims_versions]
    /\ UNCHANGED <<pc, optimized, requested, descriptor, target_is_dir, files, files0,
                   temp_created, net_requests, rsp, received,
                   currently_downloaded_bytes, progress_str, progress_logs,
                   total_bytes, err>>
    /\ UNCHANGED <<db_vars, file_vars>>

NextDl ==
    \/ list_versions
    \/ download_db_enter
    \/ open_download
    \/ create_task
    \/ sess_get
    \/ stream_chunk
    \/ stream_fail
    \/ stream_eof
    \/ finish_download

\* One call of download_db, with calls of get_ims_versions before it.
SpecDl == InitDl /\ [][NextDl]_vars

(***************************************************************************)
(* Claims about the archive fetcher, checked under SpecDl.                 *)
(***************************************************************************)
RECURSIVE Flatten(_)
Flatten(chunks) == IF chunks = <<>> THEN <<>> ELSE Head(chunks) \o Flatten(Tail(chunks))

RegistryKeys == {IMS_DATASET_META[i].key : i \in DOMAIN IMS_DATASET_META}

Exited == pc \in {"returned", "raised"}

\* Everything in a directory but the temporary download file.
Kept(fs) == [n \in DOMAIN fs \ {DOWNLOAD_ZIP} |-> fs[n]]

\* C1: once download_db has created the temporary download file, the file is absent
\* again when download_db returns or raises, whatever happened in between.
C1_TempFileAbsentOnExit ==
    (Exited /\ temp_created) => DOWNLOAD_ZIP \notin DOMAIN files

\* C3: for a version identifier that is no key of the registry, download_db raises
\* before any network request is issued and before any file of the target directory
\* is created or modified.
C3_UnknownVersionFailsFast ==
    (pc # "idle" /\ requested \notin RegistryKeys) =>
        /\ pc = "raised"
        /\ net_requests = 0
        /\ ~temp_created
        /\ files = files0

C3_Witness ==
    /\ pc = "raised"
    /\ requested = KEY_UNKNOWN
    /\ err = "AssertionError(439282)"
    /\ files0 = STALE_DIR

C8_PublicListingAndInternalDownload ==
    /\ versions.called =>
         /\ \A i \in DOMAIN IMS_DATASET_META :
              LET item == IMS_DATASET_META[i]
                  hits == {j \in DOMAIN versions.result :
                              versions.result[j] =
                                  <<item.key, item.description, item.licence_notice>>}
              IN  Cardinality(hits) = IF item.key[1] = "_" THEN 0 ELSE 1
         /\ \A j \in DOMAIN versions.result :
              /\ versions.result[j][1] \in RegistryKeys
              /\ versions.result[j][1][1] # "_"
    /\ (pc # "idle" /\ target_is_dir /\ requested \in RegistryKeys /\ requested[1] = "_") =>
         /\ descriptor.key = requested
         /\ err \notin {"AssertionError(439282)", "AssertionError(3482390)", "KeyError"}
         /\ pc = "resolved" \/ temp_created

C8_Witness ==
    /\ versions.called
    /\ Len(versions.result) = 1
    /\ requested = KEY_DEV
    /\ net_requests = 1
    /\ pc = "returned"

\* C10: for every HTTP response, with or without a Content-Length, _async_get_url
\* writes every received chunk to the temporary file in arrival order and returns the
\* sum of their lengths; without a Content-Length the download does not fail but
\* reports progress as of unknown size.
C10_EveryResponseStreams ==
    rsp.arrived =>
        /\ err # "TypeError"
        /\ pc \in {"streaming", "downloaded"} => files[DOWNLOAD_ZIP] = Flatten(received)
        /\ pc = "downloaded" => total_bytes = Len(Flatten(received))
        /\ ("Content_Length" \notin DOMAIN rsp.headers /\ progress_str # NO_PROGRESS) =>
               ~progress_str.known

(***************************************************************************)
(* lib_ims/db/ims_file.py: the metadata document and its accessors.        *)
(* A parsed JSON object is a function from its keys; a file content is     *)
(* either the text of a JSON document or some other text.                  *)
(***************************************************************************)
TEXT == [json |-> FALSE]
json_text(doc) == [json |-> TRUE, value |-> doc]

\* json.loads(bytes)
json_loads(content) ==
    IF content.json THEN [error |-> "", value |-> content.value]
    ELSE [error |-> "JSONDecodeError"]

T_NAIVE_10 == "2023-01-01T10:00:00"
T_NAIVE_09 == "2023-01-01T09:00:00"
T_AWARE_10 == "2023-01-01T10:00:00+00:00"

\* datetime.datetime.fromisoformat: minutes of the day, and the UTC offset if one is
\* given (a datetime without one is naive)
fromisoformat(text) ==
    CASE text = T_NAIVE_10 -> [error |-> "", value |-> [naive |-> TRUE, minutes |-> 600, utcoffset |-> 0]]
      [] text = T_NAIVE_09 -> [error |-> "", value |-> [naive |-> TRUE, minutes |-> 540, utcoffset |-> 0]]
      [] text = T_AWARE_10 -> [error |-> "", value |-> [naive |-> FALSE, minutes |-> 600, utcoffset |-> 0]]
      [] OTHER -> [error |-> "ValueError"]

\* The instant two comparable datetimes are ordered by.
instant(dt) == dt.minutes - dt.utcoffset

\* d[key] of a dict
getitem(d, key) ==
    IF key \in DOMAIN d THEN [error |-> "", value |-> d[key]] ELSE [error |-> "KeyError"]

start_time(static_data) ==
    LET raw == getitem(static_data, "startTime")
    IN  IF raw.error # "" THEN raw ELSE fromisoformat(raw.value)

player_id(static_data) == getitem(static_data, "playerId")

track_id(static_data) ==
    LET track == getitem(static_data, "track")
    IN  IF track.error # "" THEN track ELSE getitem(track.value, "name")

simulator_id(static_data) == getitem(static_data, "simulator")

n_players(static_data) == getitem(static_data, "numCars")

is_with_ai_players(static_data) ==
    LET n == n_players(static_data)
    IN  IF n.error # "" THEN n ELSE [error |-> "", value |-> n.value > 1]

extra_info(static_data) == getitem(static_data, "extra_info")

\* None is the empty set, a number n the set {n}
global_session_number(static_data) ==
    LET info == extra_info(static_data)
    IN  IF info.error # "" THEN info
        ELSE IF "session_number_global" \in DOMAIN info.value
             THEN [error |-> "", value |-> {info.value.session_number_global}]
        ELSE [error |-> "", value |-> {}]

\* ImsFile(path_telemetry, path_static): the assert on both paths, then prepare()
ImsFile_init(path_telemetry, path_static, telemetry_exists, static_exists, content) ==
    IF ~(telemetry_exists /\ static_exists) THEN [error |-> "AssertionError(482309)"]
    ELSE LET parsed == json_loads(content)
         IN  IF parsed.error # "" THEN [error |-> parsed.error]
             ELSE [error |-> "",
                   value |-> [path_telemetry |-> path_telemetry,
                              path_static |-> path_static,
                              static_data |-> parsed.value]]

(***************************************************************************)
(* lib_ims/db/ims_db.py: the catalog over a base directory.                *)
(***************************************************************************)
BASE_DIR == <<"d", "/">>
JSON == <<"j", "s", "o", "n">>
CSV == <<"c", "s", "v">>

A_JSON == <<"a", ".", "j", "s", "o", "n">>
A_CSV == <<"a", ".", "c", "s", "v">>
B_JSON == <<"b", ".", "j", "s", "o", "n">>
B_CSV == <<"b", ".", "c", "s", "v">>
\* a name that ends in json without being <stem>.json, and its sibling
C_JSON == <<"c", "j", "s", "o", "n">>
C_CSV == <<"c", "c", "s", "v">>
NOTES == <<"n">>

MetadataNames == {A_JSON, B_JSON, C_JSON}
TelemetryNames == {A_CSV, B_CSV, C_CSV}

\* str(file_path.absolute()) of a child of the base directory
absolute(name) == BASE_DIR \o name

\* Path(p).exists(), for a path inside the base directory
exists(path, dir) == \E n \in DOMAIN dir : absolute(n) = path

\* file_path.name[-4:] == 'json'
is_metadata_name(name) == suffix(name, 4) = JSON

\* Path(abs_path_str[:-4] + 'csv')
expected_csv_file_path(name) == drop_last(absolute(name), 4) \o CSV

RECURSIVE Enumerate(_)
Enumerate(S) ==
    IF S = {} THEN <<>>
    ELSE LET e == CHOOSE x \in S : TRUE IN <<e>> \o Enumerate(S \ {e})

\* self.path.iterdir(): the children in an order the file system chooses.  Children
\* the loop skips are listed last; where they stand changes nothing.
iterdir(dir) ==
    LET scanned == {n \in DOMAIN dir : is_metadata_name(n)}
    IN  {order \o Enumerate(DOMAIN dir \ scanned) : order \in Permutations_of(scanned)}

NO_SCAN == [error |-> "", entries |-> <<>>, warnings |-> 0]

\* [*self._load_file_index()]: the generator run to its end or to the first exception;
\* warnings counts the logging.warning calls made on the way.
RECURSIVE load_file_index(_, _, _)
load_file_index(order, dir, acc) ==
    IF order = <<>> THEN acc
    ELSE LET name == Head(order)
             csv == expected_csv_file_path(name)
         IN  IF ~is_metadata_name(name)
             THEN load_file_index(Tail(order), dir, acc)
             ELSE IF exists(csv, dir)
             THEN LET made == ImsFile_init(csv, absolute(name), exists(csv, dir),
                                           name \in DOMAIN dir, dir[name])
                  IN  IF made.error # "" THEN [acc EXCEPT !.error = made.error]
                      ELSE load_file_index(Tail(order), dir,
                               [acc EXCEPT !.entries = Append(@, made.value)])
             ELSE load_file_index(Tail(order), dir, [acc EXCEPT !.warnings = @ + 1])

\* n_recordings
n_recordings == Len(recordings)

\* The datetime of an entry whose start time parses.
key_of(sess) == start_time(sess.static_data).value

\* A faulty insertion: the new entry goes before the entries that compare equal.
insert_before_equal(sorted, sess) ==
    LET k == Cardinality({i \in DOMAIN sorted : instant(key_of(sorted[i])) < instant(key_of(sess))})
    IN  SubSeq(sorted, 1, k) \o <<sess>> \o SubSeq(sorted, k + 1, Len(sorted))

\* One step of the stable sort: the new entry goes behind every entry that is not
\* greater, so entries that compare equal keep the order of the list.
insert_stable(sorted, sess) ==
    LET k == Cardinality({i \in DOMAIN sorted : instant(key_of(sorted[i])) <= instant(key_of(sess))})
    IN  SubSeq(sorted, 1, k) \o <<sess>> \o SubSeq(sorted, k + 1, Len(sorted))

RECURSIVE stable_sort(_, _)
stable_sort(list, sorted) ==
    IF list = <<>> THEN sorted
    ELSE stable_sort(Tail(list), insert_stable(sorted, Head(list)))

\* sorted(self.recordings, key=lambda sess: sess.start_time): the keys are computed
\* first, in list order, and the first failure is raised; `<` between a naive and an
\* aware datetime raises TypeError, and a sort of two or more keys of both kinds
\* has to compare such a pair.
sorted_by_start_time(list) ==
    LET failing == {i \in DOMAIN list : start_time(list[i].static_data).error # ""}
        first == CHOOSE i \in failing : \A j \in failing : i <= j
    IN  IF failing # {}
        THEN [status |-> "raised", error |-> start_time(list[first].static_data).error,
              result |-> <<>>]
        ELSE IF \E i, j \in DOMAIN list : key_of(list[i]).naive # key_of(list[j]).naive
        THEN [status |-> "raised", error |-> "TypeError", result |-> <<>>]
        ELSE [status |-> "ok", error |-> "", result |-> stable_sort(list, <<>>)]

(***************************************************************************)
(* What a scan should find, written down from the directory alone.         *)
(***************************************************************************)
\* children whose name ends in the four characters json
EndsInJson(dir) ==
    {n \in DOMAIN dir : Len(n) >= 4 /\ \A i \in 1..4 : n[Len(n) - 4 + i] = JSON[i]}

\* the sibling: the last four characters replaced by csv
Sibling(n) == [i \in 1..(Len(n) - 1) |-> IF i <= Len(n) - 4 THEN n[i] ELSE CSV[i - (Len(n) - 4)]]

Paired(dir) == {n \in EndsInJson(dir) : Sibling(n) \in DOMAIN dir}

\* metadata files <stem>.json
DotJson(dir) == {n \in EndsInJson(dir) : Len(n) >= 5 /\ n[Len(n) - 4] = "."}
DotPaired(dir) == DotJson(dir) \cap Paired(dir)
DotUnpaired(dir) == DotJson(dir) \ Paired(dir)

(***************************************************************************)
(* The catalog's operations and the changes made to its directory.         *)
(***************************************************************************)
\* refresh(): the scan in one iteration order; the assignment to self.recordings
\* happens only if the scan did not raise.
do_refresh(order) ==
    LET scan == load_file_index(order, db_dir, NO_SCAN)
    IN  /\ recordings' = IF scan.error = "" THEN scan.entries ELSE recordings
        /\ last_refresh' = [status |-> IF scan.error = "" THEN "ok" ELSE "raised",
                            error |-> scan.error,
                            warnings |-> scan.warnings]
        /\ dir_changed' = FALSE
        /\ iterated' = NO_ITERATION
        /\ prev_iterated' = NO_ITERATION

\* ImsDatabase(path), path a directory: refresh() runs in __init__; if it raises there
\* is no object.
ImsDatabase_init ==
    /\ ~db_live
    /\ \E order \in iterdir(db_dir) :
         /\ do_refresh(order)
         /\ db_live' = (last_refresh'.status = "ok")
    /\ UNCHANGED db_dir
    /\ UNCHANGED <<dl_vars, file_vars>>

refresh ==
    /\ db_live
    /\ \E order \in iterdir(db_dir) : do_refresh(order)
    /\ UNCHANGED <<db_dir, db_live>>
    /\ UNCHANGED <<dl_vars, file_vars>>

\* __iter__, and the iterator consumed
iterate ==
    /\ db_live
    /\ prev_iterated = NO_ITERATION
    /\ iterated' = sorted_by_start_time(recordings)
    /\ prev_iterated' = iterated
    /\ UNCHANGED <<db_dir, db_live, recordings, last_refresh, dir_changed>>
    /\ UNCHANGED <<dl_vars, file_vars>>

\* somebody writes a metadata-named file
write_static(names, contents) ==
    /\ \E n \in names, c \in contents :
         /\ n \in DOMAIN db_dir => db_dir[n] # c
         /\ db_dir' = [m \in DOMAIN db_dir \cup {n} |-> IF m = n THEN c ELSE db_dir[m]]
    /\ dir_changed' = TRUE
    /\ UNCHANGED <<db_live, recordings, last_refresh, iterated, prev_iterated>>
    /\ UNCHANGED <<dl_vars, file_vars>>

\* somebody writes a telemetry-named file or another file
write_other(names) ==
    /\ \E n \in names \ DOMAIN db_dir :
         db_dir' = [m \in DOMAIN db_dir \cup {n} |-> IF m = n THEN TEXT ELSE db_dir[m]]
    /\ dir_changed' = TRUE
    /\ UNCHANGED <<db_live, recordings, last_refresh, iterated, prev_iterated>>
    /\ UNCHANGED <<dl_vars, file_vars>>

\* somebody deletes a file
remove_file(names) ==
    /\ \E n \in names \cap DOMAIN db_dir :
         db_dir' = [m \in DOMAIN db_dir \ {n} |-> db_dir[m]]
    /\ dir_changed' = TRUE
    /\ UNCHANGED <<db_live, recordings, last_refresh, iterated, prev_iterated>>
    /\ UNCHANGED <<dl_vars, file_vars>>

FULL_DOC ==
    [startTime |-> T_NAIVE_10, playerId |-> "p1", track |-> [name |-> "monza"],
     simulator |-> "sim1", numCars |-> 2, extra_info |-> [session_number_global |-> 7]]

without(doc, keys) == [k \in DOMAIN doc \ keys |-> doc[k]]

DlQuiet ==
    /\ optimized = FALSE
    /\ target_is_dir = TRUE
    /\ files = EMPTY_DIR
    /\ DlIdle

\* ---- the scan: any mix of metadata, telemetry and other files
DbContents == {TEXT, json_text(FULL_DOC)}

InitDb ==
    /\ DlQuiet
    /\ DbIdle
    /\ FileIdle

NextDb ==
    \/ write_static(MetadataNames, DbContents)
    \/ write_other(TelemetryNames \cup {NOTES})
    \/ remove_file(MetadataNames \cup TelemetryNames \cup {NOTES})
    \/ ImsDatabase_init
    \/ refresh

SpecDb == InitDb /\ [][NextDb]_vars

\* ---- iteration: every metadata file has its telemetry file
IterContents ==
    {json_text([FULL_DOC EXCEPT !.startTime = t]) : t \in {T_NAIVE_10, T_NAIVE_09, T_AWARE_10}}

InitIter ==
    /\ DlQuiet
    /\ db_dir = [n \in TelemetryNames |-> TEXT]
    /\ db_live = FALSE
    /\ recordings = <<>>
    /\ last_refresh = NO_REFRESH
    /\ dir_changed = FALSE
    /\ iterated = NO_ITERATION
    /\ prev_iterated = NO_ITERATION
    /\ FileIdle

NextIter ==
    \/ write_static(MetadataNames, IterContents)
    \/ remove_file(MetadataNames)
    \/ ImsDatabase_init
    \/ refresh
    \/ iterate

SpecIter == InitIter /\ [][NextIter]_vars

\* ---- parsing: metadata files that are no JSON or lack a required field
RequiredKeys == {"startTime", "playerId", "track", "simulator"}

ParseContents ==
    {TEXT, json_text(FULL_DOC), json_text([FULL_DOC EXCEPT !.track = <<>>])}
        \cup {json_text(without(FULL_DOC, {k})) : k \in RequiredKeys}

NextParse ==
    \/ write_static({A_JSON, C_JSON}, ParseContents)
    \/ remove_file({A_JSON, C_JSON})
    \/ ImsDatabase_init
    \/ refresh
    \/ iterate

SpecParse == InitIter /\ [][NextParse]_vars

(***************************************************************************)
(* One ImsFile object: construction, prepare() and the properties.         *)
(***************************************************************************)
PropertyNames ==
    {"start_time", "player_id", "track_id", "simulator_id", "n_players",
     "is_with_ai_players", "extra_info", "global_session_number"}

\* The property `name` read on an object holding static_data
read(name, static_data) ==
    CASE name = "start_time" -> start_time(static_data)
      [] name = "player_id" -> player_id(static_data)
      [] name = "track_id" -> track_id(static_data)
      [] name = "simulator_id" -> simulator_id(static_data)
      [] name = "n_players" -> n_players(static_data)
      [] name = "is_with_ai_players" -> is_with_ai_players(static_data)
      [] name = "extra_info" -> extra_info(static_data)
      [] name = "global_session_number" -> global_session_number(static_data)

\* Metadata documents: FULL_DOC with any of its keys left out, with an extra_info
\* that lacks session_number_global, and text that is no JSON.
FileDocs ==
    LET partial == {without(FULL_DOC, S) : S \in SUBSET DOMAIN FULL_DOC}
    IN  partial \cup {[d EXCEPT !.extra_info = [laps |-> 3]] :
                         d \in {e \in partial : "extra_info" \in DOMAIN e}}

FileContents == {TEXT} \cup {json_text(d) : d \in FileDocs}

outcome(name, r) ==
    IF r.error # "" THEN [name |-> name, status |-> "raised", error |-> r.error]
    ELSE [name |-> name, status |-> "ok", error |-> "", value |-> r.value]

ImsFile_new ==
    /\ ~ims_file.constructed
    /\ \E telemetry_exists \in BOOLEAN, static_exists \in BOOLEAN, content \in FileContents :
         LET made == ImsFile_init(absolute(A_CSV), absolute(A_JSON), telemetry_exists,
                                  static_exists, content)
         IN  /\ ims_file' = IF made.error # "" THEN ims_file
                            ELSE [constructed |-> TRUE, object |-> made.value]
             /\ access' = [name |-> "__init__",
                           status |-> IF made.error # "" THEN "raised" ELSE "ok",
                           error |-> made.error]
    /\ UNCHANGED <<dl_vars, db_vars>>

\* prepare(): the metadata file, as it is now, is read again
prepare ==
    /\ ims_file.constructed
    /\ \E content \in FileContents :
         LET parsed == json_loads(content)
         IN  /\ ims_file' = IF parsed.error # "" THEN ims_file
                            ELSE [ims_file EXCEPT !.object.static_data = parsed.value]
             /\ access' = [name |-> "prepare",
                           status |-> IF parsed.error # "" THEN "raised" ELSE "ok",
                           error |-> parsed.error]
    /\ UNCHANGED <<dl_vars, db_vars>>

read_property ==
    /\ ims_file.constructed
    /\ \E name \in PropertyNames :
         access' = outcome(name, read(name, ims_file.object.static_data))
    /\ UNCHANGED ims_file
    /\ UNCHANGED <<dl_vars, db_vars>>

InitFile ==
    /\ DlQuiet
    /\ DbIdle
    /\ FileIdle

NextFile ==
    \/ ImsFile_new
    \/ prepare
    \/ read_property

SpecFile == InitFile /\ [][NextFile]_vars

(***************************************************************************)
(* Claims about the catalog, checked under SpecDb, SpecIter and SpecParse. *)
(***************************************************************************)
Scanned == last_refresh.status # "none" /\ ~dir_changed

\* An entry by content.
Content(sess) == <<sess.path_static, sess.path_telemetry, json_text(sess.static_data)>>

EntrySet == {Content(recordings[i]) : i \in DOMAIN recordings}

DotPairSet(dir) == {<<BASE_DIR \o n, BASE_DIR \o Sibling(n), dir[n]>> : n \in DotPaired(dir)}

\* C2: for N metadata files <stem>.json with a sibling <stem>.csv and M without one,
\* other files arbitrary, refresh() completes without failure, n_recordings is N and
\* exactly M warnings are logged.  Stated for the directories whose paired metadata
\* files all hold valid JSON.
C2_CountsDotJsonPairs ==
    (Scanned /\ \A n \in DotPaired(db_dir) : db_dir[n].json) =>
        /\ last_refresh.status = "ok"
        /\ n_recordings = Cardinality(DotPaired(db_dir))
        /\ last_refresh.warnings = Cardinality(DotUnpaired(db_dir))

\* C9: after a refresh() call the collection holds exactly one entry per
\* metadata/telemetry pair <stem>.json, <stem>.csv present in the directory at that
\* call, nothing else and nothing twice.  Stated for the calls that returned.
C9_CollectionIsLastScan ==
    (Scanned /\ db_live /\ last_refresh.status = "ok") =>
        /\ EntrySet = DotPairSet(db_dir)
        /\ Len(recordings) = Cardinality(DotPaired(db_dir))

HasRequired(doc) ==
    /\ RequiredKeys \subseteq DOMAIN doc
    /\ "name" \in DOMAIN doc.track

\* C6: construction of an entry, and with it the construction or refresh of the
\* catalog over its directory, fails when the paired metadata file is no valid JSON
\* or lacks a required field; no entry that lacks a required field is ever in the
\* collection.
C6_NoEntryLacksRequiredField ==
    /\ \A i \in DOMAIN recordings : HasRequired(recordings[i].static_data)
    /\ (Scanned /\ \E n \in Paired(db_dir) : ~db_dir[n].json \/ ~HasRequired(db_dir[n].value))
           => last_refresh.status = "raised"

Parseable == \A i \in DOMAIN recordings : start_time(recordings[i].static_data).error = ""

Comparable ==
    \A i, j \in DOMAIN recordings :
        key_of(recordings[i]).naive = key_of(recordings[j]).naive

\* The iteration yielded every entry once, in non-decreasing start time order, entries
\* of equal start time in the order of the collection, and the iteration before it
\* (if there was one since the last refresh) yielded the same sequence.
IteratedInOrder ==
    LET res == iterated.result
        at(sess) == CHOOSE k \in DOMAIN res : res[k] = sess
    IN  /\ iterated.status = "ok"
        /\ Len(res) = Len(recordings)
        /\ Range(res) = Range(recordings)
        /\ \A i, j \in DOMAIN res :
              i < j => instant(key_of(res[i])) <= instant(key_of(res[j]))
        /\ \A i, j \in DOMAIN recordings :
              (i < j /\ instant(key_of(recordings[i])) = instant(key_of(recordings[j])))
                  => at(recordings[i]) < at(recordings[j])
        /\ prev_iterated.status # "none" => prev_iterated = iterated

C7_ExtraInfoDefaults ==
    LET doc == ims_file.object.static_data
        available == "extra_info" \in DOMAIN doc
                        /\ "session_number_global" \in DOMAIN doc.extra_info
    IN  (ims_file.constructed /\ HasRequired(doc)) =>
            /\ (access.name = "extra_info" /\ "extra_info" \notin DOMAIN doc)
                   => access.status = "ok" /\ access.value = <<>>
            /\ access.name = "global_session_number"
                   => /\ access.status = "ok"
                      /\ access.value = IF available
                                        THEN {doc.extra_info.session_number_global}
                                        ELSE {}

=============================================================================
